---- MODULE Spec2Model ----
(***************************************************************************)
(* Model of check.mjs, the review gate of copilot-review-enforcer.         *)
(*                                                                         *)
(* One process runs main(): it reads the action inputs, validates them,    *)
(* builds an Octokit client, lists the reviews of the pull request, fetches*)
(* the review threads with one GraphQL query, filters the threads and      *)
(* folds both results into process.exitCode.                               *)
(*                                                                         *)
(* Strings whose characters matter (logins, the pull request number) are   *)
(* sequences of one-character strings, so that String.prototype.replace    *)
(* and parseInt are computed character by character.  Strings of which     *)
(* only emptiness matters (token, owner, repo) are TLA+ strings.           *)
(*                                                                         *)
(* Runtime: Node.js 20 (.github/workflows/test.yml), where a rejected      *)
(* promise nobody handles ends the process with exit code 1.               *)
(***************************************************************************)
EXTENDS Integers, Sequences, FiniteSets, TLC

VARIABLES
    pc,                 \* position of the process in main()
    token,              \* main: const token       (line 139)
    owner,              \* main: const owner       (line 140)
    repo,               \* main: const repo        (line 141)
    pullRequestNumber,  \* main: const pullRequestNumber (line 142)
    targetLogin,        \* main: const targetLogin (line 134)
    eventName,          \* main: const eventName   (line 136)
    action,             \* main: const action      (line 137)
    reviews,            \* isPendingReview: reviews.data, <<>> until fetched
    listOutcome,        \* "none" | "ok" | "threw" : outcome of listReviews
    reviewed,           \* isPendingReview's return value, as <<b>>; <<>> until returned
    exitCode,           \* main: let exitCode, as <<n>>; <<>> until declared
    data,               \* checkUnresolvedComments: const data, as <<d>>; <<>> until fetched
    reviewThreads,      \* checkUnresolvedComments: reviewThreads
    graphqlOutcome,     \* "none" | "ok" | "threw" : outcome of octokit.graphql
    unresolvedComments, \* checkUnresolvedComments: the filtered threads
    result,             \* checkUnresolvedComments' return value, as <<b>>
    processExitCode,    \* process.exitCode, as <<n>>; <<>> while undefined
    exitStatus,         \* exit code of the ended process, as <<n>>; <<>> while running
    calls,              \* how often each API Client entry point was called
    run,                \* number of the invocation (1, or 2 when repeated)
    prev                \* what the first invocation read and how it ended

vars == <<pc, token, owner, repo, pullRequestNumber, targetLogin, eventName, action, reviews,
          listOutcome, reviewed, exitCode, data, reviewThreads, graphqlOutcome,
          unresolvedComments, result, processExitCode, exitStatus, calls,
          run, prev>>

-----------------------------------------------------------------------------
(* Bounds of the model.                                                    *)

MaxLoginTokens == 3
MaxThreads == 2
MaxReviews == 2

(* comments(first: 1) of the GraphQL query: a thread carries at most one comment. *)
CommentsFirst == 1

-----------------------------------------------------------------------------
(* Values.                                                                 *)

Undefined == "<undefined>"

(* A JavaScript number that parseInt can return: NaN, plus or minus Infinity, *)
(* or an integer-valued double, held as its sign and the decimal digits of   *)
(* its magnitude (most significant first, <<0>> for zero).                   *)
NaN == [isNaN |-> TRUE, infinite |-> FALSE, negative |-> FALSE, digits |-> <<>>]

RECURSIVE IntDigits(_)
IntDigits(n) == IF n < 10 THEN <<n>> ELSE IntDigits(n \div 10) \o <<n % 10>>

\* the number n
Num(n) ==
    [isNaN |-> FALSE, infinite |-> FALSE, negative |-> n < 0,
     digits |-> IntDigits(IF n < 0 THEN -n ELSE n)]

BotTag == <<"[", "b", "o", "t", "]">>

LoginTokens == {<<"c">>, BotTag}

RECURSIVE TokenStrings(_)
TokenStrings(n) ==
    IF n = 0 THEN {<<>>}
    ELSE LET P == TokenStrings(n - 1)
         IN  P \cup {p \o t : p \in P, t \in LoginTokens}

SeqsUpTo(S, n) == UNION {[1..k -> S] : k \in 0..n}

Range(s) == {s[i] : i \in 1..Len(s)}

ReviewStates == {"PENDING", "APPROVED", "CHANGES_REQUESTED", "COMMENTED", "DISMISSED"}

-----------------------------------------------------------------------------
(* JavaScript primitives the code uses.                                    *)

\* !value for a string or undefined
Falsy(v) == v = Undefined \/ v = ""

\* !value for a string held as a sequence of characters
FalsyChars(s) == s = <<>>

\* !value for a number
FalsyNumber(n) == n.isNaN \/ (~n.infinite /\ n.digits = <<0>>)

\* s.indexOf(pat): first position (1-based) at which pat occurs in s, 0 if none
IndexOf(s, pat) ==
    LET hits == {i \in 1..(Len(s) - Len(pat) + 1) :
                    \A k \in 1..Len(pat) : s[i + k - 1] = pat[k]}
    IN  IF hits = {} THEN 0 ELSE CHOOSE i \in hits : \A j \in hits : i <= j

\* s.replace(pat, rep) with a string pattern: the FIRST occurrence only
Replace(s, pat, rep) ==
    LET i == IndexOf(s, pat)
    IN  IF i = 0 THEN s
        ELSE SubSeq(s, 1, i - 1) \o rep \o SubSeq(s, i + Len(pat), Len(s))

Digits == {"0", "1", "2", "3", "4", "5", "6", "7", "8", "9"}

DigitValue(c) ==
    CASE c = "0" -> 0 [] c = "1" -> 1 [] c = "2" -> 2 [] c = "3" -> 3
      [] c = "4" -> 4 [] c = "5" -> 5 [] c = "6" -> 6 [] c = "7" -> 7
      [] c = "8" -> 8 [] c = "9" -> 9

\* the first position of s whose element is not in skipped, Len(s) + 1 if
\* there is none
FirstIndex(s, skipped) ==
    IF \E i \in 1..Len(s) : s[i] \notin skipped
    THEN CHOOSE i \in 1..Len(s) :
             s[i] \notin skipped /\ \A j \in 1..(i - 1) : s[j] \in skipped
    ELSE Len(s) + 1

\* the digits of the longest prefix of digits of s
DigitPrefix(s) ==
    LET n == FirstIndex(s, Digits) - 1
    IN  <<>> \o [i \in 1..n |-> DigitValue(s[i])]

\* d without its leading zeros (<<0>> for zero)
StripZeros(d) ==
    LET i == FirstIndex(d, {0})
    IN  IF i > Len(d) THEN <<0>> ELSE SubSeq(d, i, Len(d))

\* a < b, for digit sequences without leading zeros
LessDigits(a, b) ==
    \/ Len(a) < Len(b)
    \/ /\ Len(a) = Len(b)
       /\ \E i \in 1..Len(a) : a[i] < b[i] /\ \A j \in 1..(i - 1) : a[j] = b[j]

OddDigits(d) == d[Len(d)] % 2 = 1

\* d divided by two, rounded down: long division, where the remainder carried
\* into a digit is the parity of the digit before it
Half(d) ==
    StripZeros(<<>> \o [i \in 1..Len(d) |->
                   (10 * (IF i = 1 THEN 0 ELSE d[i - 1] % 2) + d[i]) \div 2])

\* 2 * d: long multiplication, where the carry into a digit is 1 exactly when
\* the digit after it is 5 or more
TimesTwo(d) ==
    LET low == [i \in 1..Len(d) |->
                   (2 * d[i] + (IF i < Len(d) /\ d[i + 1] >= 5 THEN 1 ELSE 0)) % 10]
    IN  (IF d[1] >= 5 THEN <<1>> ELSE <<>>) \o low

\* d + 1
PlusOne(d) ==
    LET n == Len(d)
        \* the number of trailing nines
        t == n - (CHOOSE i \in 0..n :
                    /\ i = 0 \/ d[i] # 9
                    /\ \A j \in (i + 1)..n : d[j] = 9)
    IN  IF t = n THEN <<1>> \o [i \in 1..n |-> 0]
        ELSE <<>> \o [i \in 1..n |-> IF i < n - t THEN d[i]
                                      ELSE IF i = n - t THEN d[i] + 1 ELSE 0]

RECURSIVE ShiftLeft(_, _)
\* d * 2^k, one half of the doublings after the other
ShiftLeft(d, k) ==
    IF k = 0 \/ d = <<>> THEN d
    ELSE IF k = 1 THEN TimesTwo(d)
    ELSE ShiftLeft(ShiftLeft(d, k \div 2), k - k \div 2)

RECURSIVE ShiftRight(_, _)
\* d divided by 2^k, rounded down, one half of the halvings after the other
ShiftRight(d, k) ==
    IF k = 0 \/ d = <<>> THEN d
    ELSE IF k = 1 THEN Half(d)
    ELSE ShiftRight(ShiftRight(d, k \div 2), k - k \div 2)

\* 2^53: a double holds 53 significant bits
TwoTo53 == <<9,0,0,7,1,9,9,2,5,4,7,4,0,9,9,2>>

RECURSIVE Normalize(_, _)
\* s.m (2^53 or more) with as many low bits dropped as leave it 2^53 or more,
\* which leaves 54 bits; s.k counts the bits dropped.  The bits are dropped
\* step at a time, for step = 512, 256, ..., 1.
Normalize(s, step) ==
    IF step = 0 THEN s
    ELSE LET h == ShiftRight(s.m, step)
         IN  IF LessDigits(h, TwoTo53) THEN Normalize(s, step \div 2)
             ELSE Normalize([m |-> h, k |-> s.k + step], step \div 2)

\* the double nearest to the integer d (ties to even): 53 significant bits
\* and k more dropped, rounded by the first bit dropped (round) and the rest
\* (sticky); Infinity from 2^1024 on, which has 309 digits
ToDouble(d) ==
    LET n   == StripZeros(d)
        s   == Normalize([m |-> n, k |-> 0], 512)
        k   == s.k + 1
        round  == OddDigits(s.m)
        sticky == ShiftLeft(s.m, s.k) # n
        low == Half(s.m)
        m   == IF round /\ (sticky \/ OddDigits(low)) THEN PlusOne(low) ELSE low
        inf == Len(n) > 309 \/ k > 971 \/ (k = 971 /\ m = TwoTo53)
    IN  IF LessDigits(n, TwoTo53) THEN [infinite |-> FALSE, digits |-> n]
        ELSE [infinite |-> inf, digits |-> IF inf THEN <<>> ELSE ShiftLeft(m, k)]

(* The 25 characters parseInt skips (WhiteSpace and LineTerminator of        *)
(* ECMAScript).  A character is a one-character string; the characters a     *)
(* string of this language cannot hold stand as the name of their code point.*)
(* First line, in order: U+0009, U+000A, U+000B, U+000C, U+000D, U+0020,     *)
(* U+00A0, U+1680, U+FEFF.                                                   *)
WhiteSpace ==
    {"\t", "\n", "", "\f", "\r", " ", " ", " ", "﻿",
     "U+2000", "U+2001", "U+2002", "U+2003", "U+2004", "U+2005",
     "U+2006", "U+2007", "U+2008", "U+2009", "U+200A", "U+2028",
     "U+2029", "U+202F", "U+205F", "U+3000"}

\* s without its leading white space
TrimStart(s) ==
    SubSeq(s, FirstIndex(s, WhiteSpace), Len(s))

\* parseInt(s, 10): leading white space is skipped, then an optional sign,
\* then the longest prefix of digits, read as a double; NaN if there is none
ParseInt(s) ==
    LET t    == TrimStart(s)
        neg  == t # <<>> /\ Head(t) = "-"
        body == IF t # <<>> /\ Head(t) \in {"-", "+"} THEN Tail(t) ELSE t
        d    == ToDouble(DigitPrefix(body))
    IN  IF body = <<>> \/ Head(body) \notin Digits THEN NaN
        ELSE [isNaN |-> FALSE, infinite |-> d.infinite, negative |-> neg,
              digits |-> d.digits]

-----------------------------------------------------------------------------
(* The pure parts of check.mjs.                                            *)

\* the callback of thread.comments.nodes.some(...)
CommentMatches(author, login) ==
    \/ author = login
    \/ author = Replace(login, BotTag, <<>>)

\* every-instead-of-some: an empty comment list then satisfies the test
ThreadMatchesEvery(thread, login) ==
    /\ ~thread.isResolved
    /\ \A i \in 1..Len(thread.comments) : CommentMatches(thread.comments[i], login)

\* the resolution flag is not looked at
ThreadMatchesAnyState(thread, login) ==
    \E i \in 1..Len(thread.comments) : CommentMatches(thread.comments[i], login)

\* the callback of reviewThreads.filter(...)
ThreadMatches(thread, login) ==
    /\ ~thread.isResolved
    /\ \E i \in 1..Len(thread.comments) : CommentMatches(thread.comments[i], login)

\* reviewThreads.filter(...)
FilterUnresolved(threads, login) ==
    SelectSeq(threads, LAMBDA th : ThreadMatches(th, login))

\* the author alone decides, whatever the state of the review
IsPendingReviewAnyState(list, login) ==
    \E i \in 1..Len(list) : list[i].login = login

\* reviews.data.some(...)
IsPendingReviewResult(list, login) ==
    \E i \in 1..Len(list) : list[i].login = login /\ list[i].state = "PENDING"

\* the fold forgets what the pending-review step decided
FoldExitCodeReset(res, code) == IF res THEN 0 ELSE 1

\* exitCode = result ? exitCode : 1
FoldExitCode(res, code) == IF res THEN code ELSE 1

\* exit code of a Node.js 20 process that ends on an unhandled rejection
UnhandledRejectionExitCode == 1

\* the fallbacks of lines 139-147
ResolveInputs(raw) ==
    [token |-> IF raw.inputToken # "" THEN raw.inputToken ELSE raw.envToken,
     owner |-> IF raw.inputOwner # "" THEN raw.inputOwner ELSE raw.ctxOwner,
     repo  |-> IF raw.inputRepo # "" THEN raw.inputRepo ELSE raw.ctxRepo,
     pullRequestNumber |->
         ParseInt(IF raw.inputPullRequestNumber # <<>>
                  THEN raw.inputPullRequestNumber
                  ELSE raw.ctxIssueNumber),
     targetLogin |-> raw.targetLogin]

\* Object.entries(required).filter(([_, value]) => !value), as the set of keys
Missing(o, r, n, t) ==
    {k \in {"owner", "repo", "pullRequestNumber", "targetLogin"} :
        \/ k = "owner" /\ Falsy(o)
        \/ k = "repo" /\ Falsy(r)
        \/ k = "pullRequestNumber" /\ FalsyNumber(n)
        \/ k = "targetLogin" /\ FalsyChars(t)}

-----------------------------------------------------------------------------
(* What the process can read.                                              *)

\* String(undefined), what parseInt sees when the event carries no number
UndefinedChars == <<"u", "n", "d", "e", "f", "i", "n", "e", "d">>

PullRequestInputs == {<<>>, <<"7">>, <<"0">>, <<"x">>, <<"7", "x">>, <<"-", "0">>}

\* logins the whole-process specifications use
GateTargets == {<<>>, <<"c">>, <<"c">> \o BotTag, <<"c">> \o BotTag \o <<"c">>}
GateAuthors == {<<"c">>, <<"c">> \o BotTag, <<"c", "c">>}
GateReviewers == {<<"c">>, <<"c">> \o BotTag}

RawInputs ==
    [inputToken : {"", "tok"}, envToken : {Undefined, "tok"},
     inputOwner : {"", "octo"}, ctxOwner : {"", "octo"},
     inputRepo : {"", "hello"}, ctxRepo : {"", "hello"},
     inputPullRequestNumber : PullRequestInputs,
     ctxIssueNumber : {UndefinedChars, <<"7">>},
     targetLogin : GateTargets]

Threads(authors) ==
    [isResolved : BOOLEAN, comments : SeqsUpTo(authors, CommentsFirst)]

Threw == [ok |-> FALSE, data |-> <<>>]
Ok(d) == [ok |-> TRUE, data |-> d]

\* responses of octokit.graphql: it throws, or returns up to MaxThreads threads
GraphqlResponses ==
    {Threw} \cup {Ok(d) : d \in SeqsUpTo(Threads(GateAuthors), MaxThreads)}

\* responses of listReviews: it throws, or returns up to MaxReviews reviews
ListReviewsResponses ==
    {Threw} \cup
    {Ok(d) : d \in SeqsUpTo([login : GateReviewers, state : {"PENDING", "APPROVED"}],
                            MaxReviews)}

\* github.context.eventName and github.context.payload.action: the two
\* events the workflow runs on, each with one of its activity types
Events ==
    {[eventName |-> "pull_request_target", action |-> "opened"],
     [eventName |-> "pull_request_review_comment", action |-> "created"]}

\* what the environment hands to the process: anything on a first invocation,
\* and on a repeated one what it handed to the first.  The event that starts
\* an invocation is any of Events, on a repeated invocation too.
InputsOffered ==
    IF run = 1 THEN {ResolveInputs(raw) : raw \in RawInputs} ELSE Range(prev.inputs)

ListReviewsOffered ==
    IF run = 1 THEN ListReviewsResponses ELSE Range(prev.listReviews)

GraphqlOffered ==
    IF run = 1 THEN GraphqlResponses ELSE Range(prev.graphql)

NoCalls == [getOctokit |-> 0, listReviews |-> 0, graphql |-> 0]

NoPrev ==
    [inputs |-> <<>>, event |-> <<>>, listReviews |-> <<>>, graphql |-> <<>>,
     exitStatus |-> <<>>]

\* a fresh process at the top of main()
Fresh ==
    /\ pc = "start"
    /\ token = Undefined /\ owner = "" /\ repo = "" /\ pullRequestNumber = NaN
    /\ targetLogin = <<>>
    /\ eventName = Undefined /\ action = Undefined
    /\ reviews = <<>> /\ listOutcome = "none" /\ reviewed = <<>>
    /\ exitCode = <<>>
    /\ data = <<>> /\ reviewThreads = <<>> /\ graphqlOutcome = "none"
    /\ unresolvedComments = <<>> /\ result = <<>>
    /\ processExitCode = <<>> /\ exitStatus = <<>>
    /\ calls = NoCalls

Init == Fresh /\ run = 1 /\ prev = NoPrev

-----------------------------------------------------------------------------
(* main(), one action per step.  The process leaves the event loop's turn   *)
(* at each await: a call that is issued and not yet answered is a state.    *)

\* lines 130-147: read the inputs, the name of the event that started the
\* workflow and its action, and apply the fallbacks (in is what ResolveInputs
\* made of the raw inputs)
ReadInputs(in, ev) ==
    /\ pc = "start"
    /\ eventName' = ev.eventName
    /\ action' = ev.action
    /\ token' = in.token
    /\ owner' = in.owner
    /\ repo' = in.repo
    /\ pullRequestNumber' = in.pullRequestNumber
    /\ targetLogin' = in.targetLogin
    /\ pc' = "validate"
    /\ UNCHANGED <<reviews, listOutcome, reviewed, exitCode, data, reviewThreads,
                   graphqlOutcome, unresolvedComments, result, processExitCode,
                   exitStatus, calls, run, prev>>

\* lines 152-165: a missing required input sets process.exitCode and returns
Validate ==
    /\ pc = "validate"
    /\ IF Missing(owner, repo, pullRequestNumber, targetLogin) # {}
       THEN /\ processExitCode' = <<1>>
            /\ pc' = "returned"
       ELSE /\ processExitCode' = processExitCode
            /\ pc' = "getOctokit"
    /\ UNCHANGED <<token, owner, repo, pullRequestNumber, targetLogin, reviews,
                   listOutcome, reviewed, exitCode, data, reviewThreads,
                   graphqlOutcome, unresolvedComments, result, exitStatus, calls,
                   eventName,
                   action, run, prev>>

\* lines 167-169: github.getOctokit(token), which throws on a token that is
\* undefined or empty ("Parameter token or opts.auth is required"); then
\* let exitCode = 0
GetOctokit ==
    /\ pc = "getOctokit"
    /\ calls' = [calls EXCEPT !.getOctokit = @ + 1]
    /\ IF Falsy(token)
       THEN pc' = "rejected" /\ exitCode' = exitCode
       ELSE pc' = "listReviews" /\ exitCode' = <<0>>
    /\ UNCHANGED <<token, owner, repo, pullRequestNumber, targetLogin, reviews,
                   listOutcome, reviewed, data, reviewThreads, graphqlOutcome,
                   unresolvedComments, result, processExitCode, exitStatus,
                   eventName,
                   action, run, prev>>

\* lines 116-120: isPendingReview issues listReviews and awaits the answer
CallListReviews ==
    /\ pc = "listReviews"
    /\ calls' = [calls EXCEPT !.listReviews = @ + 1]
    /\ pc' = "awaitListReviews"
    /\ UNCHANGED <<token, owner, repo, pullRequestNumber, targetLogin, reviews,
                   listOutcome, reviewed, exitCode, data, reviewThreads,
                   graphqlOutcome, unresolvedComments, result, processExitCode,
                   exitStatus, eventName,
                   action, run, prev>>

\* lines 121-126: the answer of listReviews.  A resolved call is searched for
\* a pending review of the target and isPendingReview returns; a rejected
\* one rejects isPendingReview and, through it, main.
ListReviews(resp) ==
    /\ pc = "awaitListReviews"
    /\ IF resp.ok
       THEN /\ listOutcome' = "ok"
            /\ reviews' = resp.data
            /\ reviewed' = <<IsPendingReviewResult(resp.data, targetLogin)>>
            /\ pc' = "pendingReturned"
       ELSE /\ listOutcome' = "threw"
            /\ pc' = "rejected"
            /\ UNCHANGED <<reviews, reviewed>>
    /\ UNCHANGED <<token, owner, repo, pullRequestNumber, targetLogin, exitCode,
                   data, reviewThreads, graphqlOutcome, unresolvedComments, result,
                   processExitCode, exitStatus, calls, eventName,
                   action, run, prev>>

\* a pending review fails the gate only when a pull request event started the
\* workflow: if (eventName === "pull_request_target" && (await ...))
PendingReviewBranchOnPullRequestEvent ==
    /\ pc = "pendingReturned"
    /\ exitCode' = IF eventName = "pull_request_target" /\ reviewed[1]
                   THEN <<1>> ELSE exitCode
    /\ pc' = "graphql"
    /\ UNCHANGED <<token, owner, repo, pullRequestNumber, targetLogin, reviews,
                   listOutcome, reviewed, data, reviewThreads, graphqlOutcome,
                   unresolvedComments, result, processExitCode, exitStatus, calls,
                   eventName, action, run, prev>>

\* lines 170-177: main resumes with isPendingReview's value; if (...) exitCode = 1
PendingReviewBranch ==
    /\ pc = "pendingReturned"
    /\ exitCode' = IF reviewed[1] THEN <<1>> ELSE exitCode
    /\ pc' = "graphql"
    /\ UNCHANGED <<token, owner, repo, pullRequestNumber, targetLogin, reviews,
                   listOutcome, reviewed, data, reviewThreads, graphqlOutcome,
                   unresolvedComments, result, processExitCode, exitStatus, calls,
                   eventName,
                   action, run, prev>>

\* lines 178, 67 and 13-41: checkUnresolvedComments calls fetchReviewComments,
\* which issues the query and awaits the answer
CallGraphql ==
    /\ pc = "graphql"
    /\ calls' = [calls EXCEPT !.graphql = @ + 1]
    /\ pc' = "awaitGraphql"
    /\ UNCHANGED <<token, owner, repo, pullRequestNumber, targetLogin, reviews,
                   listOutcome, reviewed, exitCode, data, reviewThreads,
                   graphqlOutcome, unresolvedComments, result, processExitCode,
                   exitStatus, eventName,
                   action, run, prev>>

\* the catch block continues with no threads instead of ending the process
FetchReviewCommentsCatchContinue ==
    /\ graphqlOutcome' = "threw"
    /\ data' = <<<<>>>>
    /\ pc' = "filter"
    /\ UNCHANGED <<exitStatus, processExitCode>>

\* lines 44-47: catch (error) { console.error(...); process.exit(1); }
\* process.exit(1) stores its code in process.exitCode and ends the process
FetchReviewCommentsCatch ==
    /\ graphqlOutcome' = "threw"
    /\ data' = data
    /\ pc' = "exited"
    /\ processExitCode' = <<1>>
    /\ exitStatus' = <<1>>

\* lines 42-47: the answer of octokit.graphql: return response, or the catch
FetchReviewComments(resp) ==
    /\ pc = "awaitGraphql"
    /\ IF resp.ok
       THEN /\ graphqlOutcome' = "ok"
            /\ data' = <<resp.data>>
            /\ pc' = "filter"
            /\ UNCHANGED <<exitStatus, processExitCode>>
       ELSE FetchReviewCommentsCatch
    /\ UNCHANGED <<token, owner, repo, pullRequestNumber, targetLogin, reviews,
                   listOutcome, reviewed, exitCode, reviewThreads,
                   unresolvedComments, result, calls, eventName, action, run,
                   prev>>

\* lines 67-96: checkUnresolvedComments resumes with the data, takes the
\* threads, filters them and returns false if any is left, true otherwise
CheckUnresolvedComments ==
    /\ pc = "filter"
    /\ reviewThreads' = data[1]
    /\ unresolvedComments' = FilterUnresolved(reviewThreads', targetLogin)
    /\ result' = <<Len(unresolvedComments') = 0>>
    /\ pc' = "fold"
    /\ UNCHANGED <<token, owner, repo, pullRequestNumber, targetLogin, reviews,
                   listOutcome, reviewed, exitCode, data, graphqlOutcome,
                   processExitCode, exitStatus, calls, eventName,
                   action, run, prev>>

\* lines 178-188: main resumes with the result;
\* exitCode = result ? exitCode : 1; process.exitCode = exitCode
SetExitCode ==
    /\ pc = "fold"
    /\ exitCode' = <<FoldExitCode(result[1], exitCode[1])>>
    /\ processExitCode' = exitCode'
    /\ pc' = "returned"
    /\ UNCHANGED <<token, owner, repo, pullRequestNumber, targetLogin, reviews,
                   listOutcome, reviewed, data, reviewThreads, graphqlOutcome,
                   unresolvedComments, result, exitStatus, calls, eventName,
                   action, run, prev>>

\* lines 190-192, main() resolved: nothing is left to run and the process ends
\* with process.exitCode, or 0 while that is undefined
ProcessEnds ==
    /\ pc = "returned"
    /\ exitStatus' = IF processExitCode = <<>> THEN <<0>> ELSE processExitCode
    /\ pc' = "exited"
    /\ UNCHANGED <<token, owner, repo, pullRequestNumber, targetLogin, reviews,
                   listOutcome, reviewed, exitCode, data, reviewThreads,
                   graphqlOutcome, unresolvedComments, result, processExitCode,
                   calls, eventName,
                   action, run, prev>>

\* the IIFE catches the rejection and drops it: the process ends as if main returned
UnhandledRejectionSwallowed ==
    /\ pc = "rejected"
    /\ exitStatus' = IF processExitCode = <<>> THEN <<0>> ELSE processExitCode
    /\ pc' = "exited"
    /\ UNCHANGED <<token, owner, repo, pullRequestNumber, targetLogin, reviews,
                   listOutcome, reviewed, exitCode, data, reviewThreads,
                   graphqlOutcome, unresolvedComments, result, processExitCode,
                   calls, eventName,
                   action, run, prev>>

\* lines 190-192, main() rejected: the IIFE has no catch, the rejection is
\* unhandled, and the runtime ends the process with its code in
\* process.exitCode
UnhandledRejection ==
    /\ pc = "rejected"
    /\ processExitCode' = <<UnhandledRejectionExitCode>>
    /\ exitStatus' = <<UnhandledRejectionExitCode>>
    /\ pc' = "exited"
    /\ UNCHANGED <<token, owner, repo, pullRequestNumber, targetLogin, reviews,
                   listOutcome, reviewed, exitCode, data, reviewThreads,
                   graphqlOutcome, unresolvedComments, result, calls, eventName,
                   action, run, prev>>

Next ==
    \/ pc = "start" /\ \E in \in InputsOffered, ev \in Events : ReadInputs(in, ev)
    \/ Validate
    \/ GetOctokit
    \/ CallListReviews
    \/ pc = "awaitListReviews" /\ \E resp \in ListReviewsOffered : ListReviews(resp)
    \/ PendingReviewBranch
    \/ CallGraphql
    \/ pc = "awaitGraphql" /\ \E resp \in GraphqlOffered : FetchReviewComments(resp)
    \/ CheckUnresolvedComments
    \/ SetExitCode
    \/ ProcessEnds
    \/ UnhandledRejection

Spec == Init /\ [][Next]_vars

-----------------------------------------------------------------------------
(* A second invocation on the same inputs and the same remote data.  Nothing *)
(* of the first process survives: the second starts fresh, and the          *)
(* environment (prev) repeats what it gave the first, except the event      *)
(* that starts the workflow.                                                *)

Restart ==
    /\ pc = "exited"
    /\ run = 1
    /\ run' = 2
    /\ prev' = [inputs |-> <<[token |-> token, owner |-> owner, repo |-> repo,
                              pullRequestNumber |-> pullRequestNumber,
                              targetLogin |-> targetLogin]>>,
                event |-> <<[eventName |-> eventName, action |-> action]>>,
                listReviews |-> CASE listOutcome = "ok" -> <<Ok(reviews)>>
                                  [] listOutcome = "threw" -> <<Threw>>
                                  [] OTHER -> <<>>,
                graphql |-> CASE graphqlOutcome = "ok" -> <<Ok(data[1])>>
                              [] graphqlOutcome = "threw" -> <<Threw>>
                              [] OTHER -> <<>>,
                exitStatus |-> exitStatus]
    /\ pc' = "start"
    /\ token' = Undefined /\ owner' = "" /\ repo' = "" /\ pullRequestNumber' = NaN
    /\ targetLogin' = <<>>
    /\ eventName' = Undefined /\ action' = Undefined
    /\ reviews' = <<>> /\ listOutcome' = "none" /\ reviewed' = <<>>
    /\ exitCode' = <<>>
    /\ data' = <<>> /\ reviewThreads' = <<>> /\ graphqlOutcome' = "none"
    /\ unresolvedComments' = <<>> /\ result' = <<>>
    /\ processExitCode' = <<>> /\ exitStatus' = <<>>
    /\ calls' = NoCalls

NextRepeat == Next \/ Restart

SpecRepeat == Init /\ [][NextRepeat]_vars

-----------------------------------------------------------------------------
(* The thread filter alone, on logins and threads built from the tokens     *)
(* "c" and "[bot]": the process stands before the filter with the threads   *)
(* it fetched.                                                              *)

ThreadTargets == TokenStrings(MaxLoginTokens) \ {<<>>}
ThreadAuthors == TokenStrings(MaxLoginTokens - 1) \ {<<>>}

InitThreads ==
    /\ pc = "filter"
    /\ token = "tok" /\ owner = "octo" /\ repo = "hello"
    /\ pullRequestNumber = Num(7)
    /\ targetLogin \in ThreadTargets
    /\ eventName = "pull_request_review_comment" /\ action = "created"
    /\ reviews = <<>> /\ listOutcome = "ok" /\ reviewed = <<FALSE>>
    /\ exitCode = <<0>>
    /\ data \in {<<d>> : d \in SeqsUpTo(Threads(ThreadAuthors), MaxThreads)}
    /\ reviewThreads = <<>>
    /\ graphqlOutcome = "ok"
    /\ unresolvedComments = <<>> /\ result = <<>>
    /\ processExitCode = <<>> /\ exitStatus = <<>>
    /\ calls = [getOctokit |-> 1, listReviews |-> 1, graphql |-> 1]
    /\ run = 1 /\ prev = NoPrev

NextThreads == CheckUnresolvedComments

SpecThreads == InitThreads /\ [][NextThreads]_vars

-----------------------------------------------------------------------------
(* The pending-review check alone, on reviews in every state of the enum:   *)
(* the process stands before listReviews.                                   *)

AllReviewsResponses ==
    {Threw} \cup
    {Ok(d) : d \in SeqsUpTo([login : GateAuthors, state : ReviewStates], MaxReviews)}

InitReviews ==
    /\ pc = "listReviews"
    /\ token = "tok" /\ owner = "octo" /\ repo = "hello"
    /\ pullRequestNumber = Num(7)
    /\ targetLogin \in GateTargets \ {<<>>}
    /\ eventName = "pull_request_target" /\ action = "opened"
    /\ reviews = <<>> /\ listOutcome = "none" /\ reviewed = <<>>
    /\ exitCode = <<0>>
    /\ data = <<>> /\ reviewThreads = <<>> /\ graphqlOutcome = "none"
    /\ unresolvedComments = <<>> /\ result = <<>>
    /\ processExitCode = <<>> /\ exitStatus = <<>>
    /\ calls = [getOctokit |-> 1, listReviews |-> 0, graphql |-> 0]
    /\ run = 1 /\ prev = NoPrev

NextReviews ==
    \/ CallListReviews
    \/ \E resp \in AllReviewsResponses : ListReviews(resp)
    \/ PendingReviewBranch
    \/ UnhandledRejection

SpecReviews == InitReviews /\ [][NextReviews]_vars

-----------------------------------------------------------------------------
(* What the specification says of the matching and of the outcome.         *)

\* login with a trailing "[bot]" removed, unchanged when it does not end so
StripBotSuffix(login) ==
    IF /\ Len(login) >= Len(BotTag)
       /\ SubSeq(login, Len(login) - Len(BotTag) + 1, Len(login)) = BotTag
    THEN SubSeq(login, 1, Len(login) - Len(BotTag))
    ELSE login

\* the author is the target login, or the target login without its bot suffix
AuthoredByTarget(author, login) ==
    author = login \/ author = StripBotSuffix(login)

\* an unresolved thread whose first comment is by the target login
UnresolvedByTarget(thread, login) ==
    /\ ~thread.isResolved
    /\ thread.comments # <<>>
    /\ AuthoredByTarget(thread.comments[1], login)

\* a review of the target login in state PENDING
PendingByTarget(list, login) ==
    \E i \in 1..Len(list) : list[i].state = "PENDING" /\ list[i].login = login

AllInputsPresent ==
    ~Falsy(token) /\ ~Falsy(owner) /\ ~Falsy(repo)
    /\ ~FalsyNumber(pullRequestNumber) /\ ~FalsyChars(targetLogin)

AllResolved(threads) == \A i \in 1..Len(threads) : threads[i].isResolved

WithComments(threads) == SelectSeq(threads, LAMBDA th : th.comments # <<>>)

-----------------------------------------------------------------------------
(* The claims.                                                              *)

\* C1: with all inputs present and both fetches succeeding, the process exits
\* with 0 exactly when the target login has no PENDING review and no
\* unresolved thread whose first comment is by the target login, and with 1
\* otherwise.
C1_ExitZeroIffGateClear ==
    (pc = "exited" /\ AllInputsPresent /\ listOutcome = "ok" /\ graphqlOutcome = "ok")
    => /\ exitStatus \in {<<0>>, <<1>>}
       /\ exitStatus = <<0>> <=>
            /\ ~PendingByTarget(reviews, targetLogin)
            /\ ~\E i \in 1..Len(reviewThreads) :
                    UnresolvedByTarget(reviewThreads[i], targetLogin)

\* C2: once the fallbacks are applied, a missing token, owner, repo, pull
\* request number or target login means that the API Client is never called
\* and that the process ends on the configuration-error path with exit code 1.
C2_MissingInputNeverReachesClient ==
    (pc # "start" /\ ~AllInputsPresent)
    => /\ calls = NoCalls
       /\ pc = "exited" => exitStatus = <<1>> /\ processExitCode = <<1>>

\* C3: when octokit.graphql throws, the process has ended with exit code 1,
\* the query was issued once, and the thread filter never ran.
C3_GraphqlFailureExitsAtOnce ==
    graphqlOutcome = "threw"
    => /\ pc = "exited"
       /\ exitStatus = <<1>>
       /\ calls.graphql = 1
       /\ result = <<>>
       /\ unresolvedComments = <<>>
       /\ processExitCode = <<1>>

C3_Witness ==
    graphqlOutcome = "threw" /\ exitCode = <<0>> /\ pc = "exited"

\* C4: when listReviews throws, the process ends with exit code 1, never 0,
\* and the review threads are not fetched.
C4_ListReviewsFailureExitsOne ==
    listOutcome = "threw"
    => /\ pc \in {"rejected", "exited"}
       /\ calls.graphql = 0
       /\ pc = "exited" => exitStatus = <<1>>

C4_Witness ==
    /\ listOutcome = "threw" /\ pc = "exited"
    /\ calls.listReviews = 1
    /\ exitStatus = <<1>>

\* C5: a thread is kept by the filter exactly when it is unresolved and its
\* first comment's author is the target login or the target login with a
\* trailing "[bot]" removed; a "[bot]" elsewhere in the target login is not
\* removed.
C5_MatchIsExactOrTrailingBotStripped ==
    result # <<>>
    => \A i \in 1..Len(reviewThreads) :
          reviewThreads[i] \in Range(unresolvedComments)
          <=> UnresolvedByTarget(reviewThreads[i], targetLogin)

\* C6: when every fetched thread is resolved the filter keeps none and
\* checkUnresolvedComments returns true, whatever the authors and the target
\* login; with no pending review the process then exits with 0.
C6_AllResolvedPasses ==
    (result # <<>> /\ AllResolved(reviewThreads))
    => /\ result = <<TRUE>>
       /\ unresolvedComments = <<>>
       /\ (pc = "exited" /\ reviewed = <<FALSE>>) => exitStatus = <<0>>

C6_Witness ==
    /\ pc = "exited"
    /\ reviewed = <<FALSE>>
    /\ Len(reviewThreads) = MaxThreads
    /\ AllResolved(reviewThreads)
    /\ \E i \in 1..Len(reviewThreads) :
          /\ reviewThreads[i].comments # <<>>
          /\ reviewThreads[i].comments[1] = targetLogin

\* C7: a thread without comments is never kept by the filter, resolved or
\* not, and the threads without comments do not change the result: it is
\* the result for the list without them.
C7_NoCommentsNeverMatches ==
    result # <<>>
    => /\ \A i \in 1..Len(unresolvedComments) : unresolvedComments[i].comments # <<>>
       /\ unresolvedComments = FilterUnresolved(WithComments(reviewThreads), targetLogin)
       /\ result = <<Len(FilterUnresolved(WithComments(reviewThreads), targetLogin)) = 0>>

C7_Witness ==
    /\ result = <<TRUE>>
    /\ Len(reviewThreads) = MaxThreads
    /\ \E i \in 1..Len(reviewThreads) :
          ~reviewThreads[i].isResolved /\ reviewThreads[i].comments = <<>>
    /\ \E i \in 1..Len(reviewThreads) :
          reviewThreads[i].isResolved /\ reviewThreads[i].comments = <<targetLogin>>

\* C8: isPendingReview returns true exactly when some fetched review is in
\* state PENDING and by the target login; false for no reviews and for
\* reviews of the target in any other state.
C8_PendingIffPendingReviewByTarget ==
    reviewed # <<>>
    => /\ reviewed[1] <=> PendingByTarget(reviews, targetLogin)
       /\ reviews = <<>> => reviewed = <<FALSE>>
       /\ (\A i \in 1..Len(reviews) :
              reviews[i].login = targetLogin => reviews[i].state # "PENDING")
          => reviewed = <<FALSE>>

C8_Witness ==
    /\ reviewed = <<FALSE>>
    /\ \E i \in 1..Len(reviews) :
          reviews[i].login = targetLogin /\ reviews[i].state = "DISMISSED"
    /\ \E i \in 1..Len(reviews) :
          reviews[i].login # targetLogin /\ reviews[i].state = "PENDING"

\* C9: once isPendingReview has returned true and main has marked the gate
\* failed, exitCode is 1 and stays 1:
\* the thread check cannot reset it and the process exits with 1.
C9_PendingFailureIsKept ==
    (reviewed = <<TRUE>> /\ pc # "pendingReturned")
    => /\ exitCode = <<1>>
       /\ pc = "returned" => processExitCode = <<1>>
       /\ pc = "exited" => exitStatus = <<1>>

C9_Witness ==
    reviewed = <<TRUE>> /\ result = <<TRUE>> /\ pc = "exited"

\* C10: a second invocation that reads the same inputs and the same remote
\* data, with the same fetch outcomes, exits with the code of the first,
\* whichever event and activity type started either of the two.
C10_SameInputsSameExitCode ==
    (run = 2 /\ pc = "exited") => exitStatus = prev.exitStatus

\* the second invocation, started by an event of another name than the first,
\* found a pending review of the target and no unresolved thread, and failed
C10_Witness ==
    /\ run = 2 /\ pc = "exited"
    /\ prev.event[1].eventName # eventName
    /\ reviewed = <<TRUE>>
    /\ result = <<TRUE>>
    /\ exitStatus = <<1>>

====
